---- MODULE Spec2Model ----
(***************************************************************************)
(* The FoodDetails screen (src/pages/FoodDetails/index.tsx) as a state     *)
(* machine.  The four useState cells hold the latest state (every queued   *)
(* update applied, in call order); `rendered` holds the values the last    *)
(* render captured, which is what the handlers' closures read.  A render   *)
(* is a step of its own: React decides when it happens, so a handler may   *)
(* run against a capture that is older than the state its updater gets.    *)
(* Remote calls are requests in flight that complete in any order.         *)
(*                                                                         *)
(* JavaScript arrays are modelled as sequences: position k+1 stands for    *)
(* index k, and 0 stands for the index -1 that findIndex returns when      *)
(* nothing matches.  Objects are records; a missing field is a field       *)
(* that is not in the record's DOMAIN.                                     *)
(***************************************************************************)
EXTENDS Integers, Sequences, FiniteSets, Bags, TLC

\* ---------------------------------------------------------------- bounds
MaxQuantity == 2      \* increments are offered while quantities stay <= this
MaxFoodQuantity == 2  \* handleIncrementFood is offered below this
MaxUnrendered == 2    \* quantity-handler calls between two renders
MaxLoads == 2         \* loadFood runs (the mount's and the reloads')
MaxToggles == 2       \* toggleFavorite invocations
MaxOrders == 1        \* order requests in flight
MaxCalls == 4         \* counted calls of the extra handlers

\* ------------------------------------------------------- values and data
\* The number NaN (undefined * n); outside every amount the model computes.
NaN == -1000

\* useState({} as Food): the object with no fields.
EmptyFood == [k \in {} |-> 0]

\* The extra whose handler calls are counted: both foods offer it.
TrackedId == 11

\* The ids a handler of an extra can be called with.
ExtraIds == {11, 21}

\* The ids a route can carry.
FoodIds == {1, 2}

\* What api.get(`foods/${id}`) answers: the Food without formattedPrice,
\* its extras without quantity.
FoodFromApi(id) ==
  IF id = 1
  THEN [id |-> 1, name |-> "food-1", price |-> 10,
        extras |-> << [id |-> 11, name |-> "extra-11", value |-> 2] >>]
  ELSE [id |-> 2, name |-> "food-2", price |-> 7,
        extras |-> << [id |-> 21, name |-> "extra-21", value |-> 3],
                      [id |-> 11, name |-> "extra-11", value |-> 2] >>]

\* formatValue: the amount as a display string, "R$" followed by the amount.
formatValue(v) == << "R$", v >>

\* { ...obj, [key]: val }
Spread(obj, key, val) ==
  [k \in DOMAIN obj \cup {key} |-> IF k = key THEN val ELSE obj[k]]

\* foodFromApi.extras.map(item => ({ ...item, quantity: 0 }))
foodExtas(foodFromApi) ==
  [i \in 1..Len(foodFromApi.extras) |->
     Spread(foodFromApi.extras[i], "quantity", 0)]

\* { ...foodFromApi, formattedPrice: formatValue(foodFromApi.price) }
FormattedFood(foodFromApi) ==
  Spread(foodFromApi, "formattedPrice", formatValue(foodFromApi.price))

\* An updater that adds the change twice.
ExtraUpdaterTwice(oldState, extraIndex, delta) ==
  [oldState EXCEPT ![extraIndex] =
     Spread(oldState[extraIndex], "quantity",
            oldState[extraIndex].quantity + 2 * delta)]

\* arr.findIndex(item => item.id === id)
findIndex(arr, id) ==
  IF \E i \in 1..Len(arr) : arr[i].id = id
  THEN CHOOSE i \in 1..Len(arr) :
         /\ arr[i].id = id
         /\ \A j \in 1..(i - 1) : arr[j].id # id
  ELSE 0

\* oldState[extraIndex] is undefined: reading .quantity of it throws.
Throws(oldState, extraIndex) == extraIndex \notin 1..Len(oldState)

\* The updater both extra handlers pass to setExtras, with the change delta:
\* [...slice(0, i), { ...oldState[i], quantity: q + delta }, ...slice(i + 1)]
ExtraUpdater(oldState, extraIndex, delta) ==
  LET increasedQuantity == oldState[extraIndex].quantity + delta
      newExtra == Spread(oldState[extraIndex], "quantity", increasedQuantity)
  IN  SubSeq(oldState, 1, extraIndex - 1)
        \o << newExtra >>
        \o SubSeq(oldState, extraIndex + 1, Len(oldState))

RECURSIVE extraTotalFrom(_, _)
\* extras.reduce((cumulator, item) => cumulator + item.quantity * item.value, 0)
extraTotalFrom(arr, i) ==
  IF i > Len(arr) THEN 0
  ELSE arr[i].quantity * arr[i].value + extraTotalFrom(arr, i + 1)

\* food.price * foodQuantity; NaN when food has no price.
foodTotal(f, q) == IF "price" \in DOMAIN f THEN f.price * q ELSE NaN

\* useMemo(() => formatValue(extraTotal + foodTotal), [extras, food, foodQuantity])
CartTotalOf(f, ex, q) ==
  IF foodTotal(f, q) = NaN
  THEN formatValue(NaN)
  ELSE formatValue(extraTotalFrom(ex, 1) + foodTotal(f, q))

\* The body handleFinishOrder posts: { ...food, extras }
OrderPayload(f, ex) == Spread(f, "extras", ex)

\* (item: Food) => item.id === food.id, over the fetched favorites
favoriteArr(data, f) == {id \in data : "id" \in DOMAIN f /\ id = f.id}

\* ------------------------------------------------------------- variables
VARIABLES
  food, extras, isFavorite, foodQuantity,  \* the useState cells
  rendered,      \* the cells' values as the last render captured them
  cartTotal,     \* the memoised total the last render shows
  mounted,       \* the first render has committed and run its effects
  routeParams,   \* route.params.id
  routeDirty,    \* routeParams changed since the loadFood effect last ran
  foodDirty,     \* food changed since the checkFavorite effect last ran
  unrendered,    \* quantity-handler calls since the last render
  loadCont,      \* loadFood between setFood and setExtras: the pending extras
  crashed,       \* a TypeError escaped a handler or an updater
  torndown,      \* the screen was unmounted (navigation away)
  loadReqs,      \* api.get(`foods/${id}`) calls in flight
  favReqs,       \* api.get('favorites') calls in flight
  toggleReqs,    \* api.delete / api.post('favorites') calls in flight
  orderReqs,     \* api.post('orders') calls in flight
  favorites,     \* the remote favorites collection (ids)
  console,       \* which catch blocks have logged
  nLoads, nToggles,  \* runs started so far
  favBase, flips,    \* isFavorite as checkFavorite last set it (or as
                     \* constructed), and the toggles applied since
  incs, decs         \* handleIncrementExtra / handleDecrementExtra calls
                     \* counted for the extra TrackedId

state == << food, extras, isFavorite, foodQuantity >>
view == << rendered, cartTotal, mounted, routeParams, routeDirty, foodDirty,
           unrendered, loadCont, crashed, torndown >>
net == << loadReqs, favReqs, toggleReqs, orderReqs, favorites, console >>
calls == << incs, decs >>
hist == << nLoads, nToggles, favBase, flips, calls >>
vars == << state, view, net, hist >>

Capture(f, ex, fav, q) ==
  [food |-> f, extras |-> ex, isFavorite |-> fav, foodQuantity |-> q]

\* The cells as useState constructs them, before the first render commits.
\* The route carries either food; the remote favorites collection is empty
\* or holds food 1.
Init ==
  /\ food = EmptyFood
  /\ extras = << >>
  /\ isFavorite = FALSE
  /\ foodQuantity = 1
  /\ rendered = Capture(EmptyFood, << >>, FALSE, 1)
  /\ cartTotal = CartTotalOf(EmptyFood, << >>, 1)
  /\ mounted = FALSE
  /\ routeParams \in FoodIds
  /\ routeDirty = TRUE
  /\ foodDirty = TRUE
  /\ unrendered = 0
  /\ loadCont = << >>
  /\ crashed = FALSE
  /\ torndown = FALSE
  /\ loadReqs = EmptyBag
  /\ favReqs = EmptyBag
  /\ toggleReqs = EmptyBag
  /\ orderReqs = EmptyBag
  /\ favorites \in {{}, {1}}
  /\ console = {}
  /\ nLoads = 0
  /\ nToggles = 0
  /\ favBase = FALSE
  /\ flips = 0
  /\ incs = 0
  /\ decs = 0

One(m) == SetToBag({m})

\* The user can act: the screen is mounted, has not crashed, and no
\* completion handler is in the middle of its synchronous run.
Interactive == mounted /\ ~torndown /\ ~crashed /\ loadCont = << >>

\* ------------------------------------------------- rendering and effects
FavRequest(f) == [food |-> f, served |-> FALSE, data |-> {}]

\* A render commits: the closures capture the current cells, cartTotal is
\* recomputed, and the effects whose dependency changed run: loadFood when
\* routeParams changed, checkFavorite when food changed (both on mount).
Render ==
  /\ ~crashed
  /\ ~torndown
  /\ \/ ~mounted
     \/ unrendered > 0
     \/ routeDirty
     \/ foodDirty
     \/ rendered # Capture(food, extras, isFavorite, foodQuantity)
  /\ rendered' = Capture(food, extras, isFavorite, foodQuantity)
  /\ cartTotal' = CartTotalOf(food, extras, foodQuantity)
  /\ mounted' = TRUE
  /\ unrendered' = 0
  /\ loadReqs' = IF routeDirty THEN loadReqs (+) One(routeParams) ELSE loadReqs
  /\ nLoads' = IF routeDirty THEN nLoads + 1 ELSE nLoads
  /\ favReqs' = IF foodDirty THEN favReqs (+) One(FavRequest(food)) ELSE favReqs
  /\ routeDirty' = FALSE
  /\ foodDirty' = FALSE
  /\ UNCHANGED << state, routeParams, loadCont, crashed, torndown >>
  /\ UNCHANGED << toggleReqs, orderReqs, favorites, console >>
  /\ UNCHANGED << nToggles, favBase, flips, calls >>

\* The navigator hands the screen other route params.
Navigate(id) ==
  /\ Interactive
  /\ ~routeDirty
  /\ nLoads < MaxLoads
  /\ id # routeParams
  /\ routeParams' = id
  /\ routeDirty' = TRUE
  /\ UNCHANGED << state, rendered, cartTotal, mounted, foodDirty, unrendered,
                  loadCont, crashed, torndown, net, hist >>

\* The navigator removes the screen (goBack): the component unmounts.  No
\* effect returns a cleanup, so the requests in flight stay in flight and
\* their continuations still run.
Unmount ==
  /\ mounted
  /\ ~torndown
  /\ ~crashed
  /\ loadCont = << >>
  /\ torndown' = TRUE
  /\ UNCHANGED << state, rendered, cartTotal, mounted, routeParams, routeDirty,
                  foodDirty, unrendered, loadCont, crashed, net, hist >>

\* ---------------------------------------------------------------- loadFood
\* The food fetch resolved: setFood(...) has run, setExtras(...) has not yet.
LoadSetFood(id) ==
  /\ ~crashed
  /\ loadCont = << >>
  /\ BagIn(id, loadReqs)
  /\ loadReqs' = loadReqs (-) One(id)
  /\ food' = FormattedFood(FoodFromApi(id))
  /\ foodDirty' = TRUE
  /\ loadCont' = << foodExtas(FoodFromApi(id)) >>
  /\ UNCHANGED << extras, isFavorite, foodQuantity >>
  /\ UNCHANGED << rendered, cartTotal, mounted, routeParams, routeDirty,
                  unrendered, crashed, torndown >>
  /\ UNCHANGED << favReqs, toggleReqs, orderReqs, favorites, console, hist >>

\* setExtras(foodExtas): loadFood returns.
LoadSetExtras ==
  /\ ~crashed
  /\ loadCont # << >>
  /\ extras' = Head(loadCont)
  /\ loadCont' = << >>
  /\ UNCHANGED << food, isFavorite, foodQuantity >>
  /\ UNCHANGED << rendered, cartTotal, mounted, routeParams, routeDirty,
                  foodDirty, unrendered, crashed, torndown, net, hist >>

\* The food fetch rejected: catch (err) { console.log(err) }
LoadFailed(id) ==
  /\ ~crashed
  /\ loadCont = << >>
  /\ BagIn(id, loadReqs)
  /\ loadReqs' = loadReqs (-) One(id)
  /\ console' = console \cup {"loadFood"}
  /\ UNCHANGED << state, view, favReqs, toggleReqs, orderReqs, favorites, hist >>

\* ------------------------------------------------------------ checkFavorite
\* The server answers a favorites fetch with the collection as it is now.
ServeFavorites(m) ==
  /\ ~crashed
  /\ BagIn(m, favReqs)
  /\ ~m.served
  /\ favReqs' = (favReqs (-) One(m))
       (+) One([m EXCEPT !.served = TRUE, !.data = favorites])
  /\ UNCHANGED << state, view, loadReqs, toggleReqs, orderReqs, favorites,
                  console, hist >>

\* setIsFavorite(favoriteArr.length > 0)
CheckFavoriteDone(m) ==
  /\ ~crashed
  /\ loadCont = << >>
  /\ BagIn(m, favReqs)
  /\ m.served
  /\ favReqs' = favReqs (-) One(m)
  /\ isFavorite' = (Cardinality(favoriteArr(m.data, m.food)) > 0)
  /\ favBase' = isFavorite'
  /\ flips' = 0
  /\ UNCHANGED << food, extras, foodQuantity, view >>
  /\ UNCHANGED << loadReqs, toggleReqs, orderReqs, favorites, console >>
  /\ UNCHANGED << nLoads, nToggles, calls >>

\* The favorites fetch rejected: catch (err) { console.log(err) }
CheckFavoriteFailed(m) ==
  /\ ~crashed
  /\ loadCont = << >>
  /\ BagIn(m, favReqs)
  /\ ~m.served
  /\ favReqs' = favReqs (-) One(m)
  /\ console' = console \cup {"checkFavorite"}
  /\ UNCHANGED << state, view, loadReqs, toggleReqs, orderReqs, favorites, hist >>

\* ----------------------------------------------------------- the handlers
\* The ids of the extras the last render drew buttons for.
RenderedIds == {rendered.extras[i].id : i \in 1..Len(rendered.extras)}

\* extraIndex comes from the captured extras, the updater runs on the latest.
\* (The call counters are set by the step that makes the call.)
handleIncrementExtra(id) ==
  /\ Interactive
  /\ unrendered < MaxUnrendered
  /\ LET extraIndex == findIndex(rendered.extras, id)
     IN  IF Throws(extras, extraIndex)
         THEN crashed' = TRUE /\ extras' = extras
         ELSE /\ extras[extraIndex].quantity < MaxQuantity
              /\ extras' = ExtraUpdater(extras, extraIndex, 1)
              /\ crashed' = crashed
  /\ unrendered' = unrendered + 1
  /\ UNCHANGED << food, isFavorite, foodQuantity >>
  /\ UNCHANGED << rendered, cartTotal, mounted, routeParams, routeDirty,
                  foodDirty, loadCont, torndown, net >>
  /\ UNCHANGED << nLoads, nToggles, favBase, flips >>

\* The guard reads the captured extras; the updater runs on the latest.
handleDecrementExtra(id) ==
  /\ Interactive
  /\ unrendered < MaxUnrendered
  /\ LET extraIndex == findIndex(rendered.extras, id)
     IN  IF Throws(rendered.extras, extraIndex)
         THEN crashed' = TRUE /\ extras' = extras
         ELSE IF rendered.extras[extraIndex].quantity > 0
         THEN IF Throws(extras, extraIndex)
              THEN crashed' = TRUE /\ extras' = extras
              ELSE /\ extras' = ExtraUpdater(extras, extraIndex, -1)
                   /\ crashed' = crashed
         ELSE extras' = extras /\ crashed' = crashed
  /\ unrendered' = unrendered + 1
  /\ UNCHANGED << food, isFavorite, foodQuantity >>
  /\ UNCHANGED << rendered, cartTotal, mounted, routeParams, routeDirty,
                  foodDirty, loadCont, torndown, net >>
  /\ UNCHANGED << nLoads, nToggles, favBase, flips >>

\* setFoodQuantity(oldState => oldState + 1)
handleIncrementFood ==
  /\ Interactive
  /\ unrendered < MaxUnrendered
  /\ foodQuantity < MaxFoodQuantity
  /\ foodQuantity' = foodQuantity + 1
  /\ unrendered' = unrendered + 1
  /\ UNCHANGED << food, extras, isFavorite >>
  /\ UNCHANGED << rendered, cartTotal, mounted, routeParams, routeDirty,
                  foodDirty, loadCont, crashed, torndown, net, hist >>

\* if (foodQuantity > 1) setFoodQuantity(oldState => oldState - 1)
handleDecrementFood ==
  /\ Interactive
  /\ unrendered < MaxUnrendered
  /\ foodQuantity' = IF rendered.foodQuantity > 1
                     THEN foodQuantity - 1
                     ELSE foodQuantity
  /\ unrendered' = unrendered + 1
  /\ UNCHANGED << food, extras, isFavorite >>
  /\ UNCHANGED << rendered, cartTotal, mounted, routeParams, routeDirty,
                  foodDirty, loadCont, crashed, torndown, net, hist >>

\* ----------------------------------------------------------- toggleFavorite
\* An optimistic toggle: the flag flipped before the await.
FlagFlippedAtOnce(oldState) == ~oldState

\* isFavorite while toggleFavorite awaits its remote write: nothing is set
\* before the await.
FlagWhileAwaiting(oldState) == oldState

\* setIsFavorite(!isFavorite): the flip computed from the captured flag.
FlagFromCapture(oldState, captured) == ~captured

\* setIsFavorite(oldState => !oldState), once the write resolved; captured
\* is the isFavorite the callback closed over.
FlagAfterWrite(oldState, captured) == ~oldState

\* if (isFavorite) api.delete(`favorites/${food.id}`) else api.post('favorites', food)
ToggleRequest(captured) ==
  [kind |-> IF captured.isFavorite THEN "delete" ELSE "post",
   food |-> captured.food, served |-> FALSE]

toggleFavorite ==
  /\ Interactive
  /\ nToggles < MaxToggles
  /\ nToggles' = nToggles + 1
  /\ toggleReqs' = toggleReqs (+) One(ToggleRequest(rendered))
  /\ isFavorite' = FlagWhileAwaiting(isFavorite)
  /\ UNCHANGED << food, extras, foodQuantity, view >>
  /\ UNCHANGED << loadReqs, favReqs, orderReqs, favorites, console >>
  /\ UNCHANGED << nLoads, favBase, flips, calls >>

\* What a served write does to the remote collection.
RemoteWrite(favs, m) ==
  IF "id" \notin DOMAIN m.food THEN favs
  ELSE IF m.kind = "post" THEN favs \cup {m.food.id}
  ELSE favs \ {m.food.id}

\* The server applies a favorite write.
ServeToggle(m) ==
  /\ ~crashed
  /\ BagIn(m, toggleReqs)
  /\ ~m.served
  /\ toggleReqs' = (toggleReqs (-) One(m))
       (+) One([m EXCEPT !.served = TRUE])
  /\ favorites' = RemoteWrite(favorites, m)
  /\ UNCHANGED << state, view, loadReqs, favReqs, orderReqs, console, hist >>

\* The await returned: the flag is flipped.
ToggleDone(m) ==
  /\ ~crashed
  /\ loadCont = << >>
  /\ BagIn(m, toggleReqs)
  /\ m.served
  /\ toggleReqs' = toggleReqs (-) One(m)
  /\ isFavorite' = FlagAfterWrite(isFavorite, m.kind = "delete")
  /\ flips' = flips + 1
  /\ UNCHANGED << food, extras, foodQuantity, view >>
  /\ UNCHANGED << loadReqs, favReqs, orderReqs, favorites, console >>
  /\ UNCHANGED << nLoads, nToggles, favBase, calls >>

\* A rollback of a flip that was never made: the flag negated in the catch.
FlagNegatedInCatch(oldState) == ~oldState

\* isFavorite after the catch block: it only logs.
FlagAfterFailure(oldState) == oldState

\* The await threw: catch (err) { console.log(err) }
ToggleFailed(m) ==
  /\ ~crashed
  /\ loadCont = << >>
  /\ BagIn(m, toggleReqs)
  /\ ~m.served
  /\ toggleReqs' = toggleReqs (-) One(m)
  /\ console' = console \cup {"toggleFavorite"}
  /\ isFavorite' = FlagAfterFailure(isFavorite)
  /\ UNCHANGED << food, extras, foodQuantity >>
  /\ UNCHANGED << view, loadReqs, favReqs, orderReqs, favorites, hist >>

\* -------------------------------------------------------- handleFinishOrder
handleFinishOrder ==
  /\ Interactive
  /\ BagCardinality(orderReqs) < MaxOrders
  /\ orderReqs' = orderReqs (+) One(OrderPayload(rendered.food, rendered.extras))
  /\ UNCHANGED << state, view, loadReqs, favReqs, toggleReqs, favorites,
                  console, hist >>

\* A composer that starts a new draft once the order is sent: every
\* quantity of the ledger back to 0.
ExtrasCleared(ex) == [i \in 1..Len(ex) |-> Spread(ex[i], "quantity", 0)]

\* extras once handleFinishOrder is over: the try block only awaits the
\* post, the catch block only logs.
ExtrasAfterOrder(ex) == ex

\* The post resolved: handleFinishOrder returns.
OrderDone(p) ==
  /\ ~crashed
  /\ loadCont = << >>
  /\ BagIn(p, orderReqs)
  /\ orderReqs' = orderReqs (-) One(p)
  /\ extras' = ExtrasAfterOrder(extras)
  /\ UNCHANGED << food, isFavorite, foodQuantity >>
  /\ UNCHANGED << view, loadReqs, favReqs, toggleReqs, favorites,
                  console, hist >>

\* The post rejected: catch (err) { console.log(err) }
OrderFailed(p) ==
  /\ ~crashed
  /\ loadCont = << >>
  /\ BagIn(p, orderReqs)
  /\ orderReqs' = orderReqs (-) One(p)
  /\ console' = console \cup {"handleFinishOrder"}
  /\ extras' = ExtrasAfterOrder(extras)
  /\ UNCHANGED << food, isFavorite, foodQuantity >>
  /\ UNCHANGED << view, loadReqs, favReqs, toggleReqs, favorites, hist >>

\* ------------------------------------------------------------ specification
\* Mounting, rendering and the food load.
ScreenStep ==
  \/ Render
  \/ \E id \in BagToSet(loadReqs) : LoadSetFood(id)
  \/ LoadSetExtras
  \/ \E id \in BagToSet(loadReqs) : LoadFailed(id)

\* A reload: the route changes under the mounted screen.
NavigateStep == \E id \in FoodIds : Navigate(id)

\* The quantity handlers.
LedgerStep ==
  \/ \E id \in RenderedIds : handleIncrementExtra(id) /\ UNCHANGED calls
  \/ \E id \in RenderedIds : handleDecrementExtra(id) /\ UNCHANGED calls
  \/ handleIncrementFood
  \/ handleDecrementFood

\* The extra handlers with their calls for TrackedId counted, in call order.
CountedStep ==
  \/ \E id \in RenderedIds :
       /\ incs + decs < MaxCalls
       /\ handleIncrementExtra(id)
       /\ incs' = IF id = TrackedId THEN incs + 1 ELSE incs
       /\ decs' = decs
  \/ \E id \in RenderedIds :
       /\ incs + decs < MaxCalls
       /\ handleDecrementExtra(id)
       /\ decs' = IF id = TrackedId THEN decs + 1 ELSE decs
       /\ incs' = incs

\* The extra handlers called with an id the captured ledger does not hold.
AbsentStep ==
  \/ \E id \in ExtraIds \ RenderedIds :
       handleIncrementExtra(id) /\ UNCHANGED calls
  \/ \E id \in ExtraIds \ RenderedIds :
       handleDecrementExtra(id) /\ UNCHANGED calls

\* checkFavorite's completion and the favorite toggle.
FavoriteStep ==
  \/ \E m \in BagToSet(favReqs) : ServeFavorites(m)
  \/ \E m \in BagToSet(favReqs) : CheckFavoriteDone(m)
  \/ \E m \in BagToSet(favReqs) : CheckFavoriteFailed(m)
  \/ toggleFavorite
  \/ \E m \in BagToSet(toggleReqs) : ServeToggle(m)
  \/ \E m \in BagToSet(toggleReqs) : ToggleDone(m)
  \/ \E m \in BagToSet(toggleReqs) : ToggleFailed(m)

\* The user presses the heart once the screen shows the loaded food and
\* every favorites fetch is over.
ToggleWhenLoaded ==
  /\ "id" \in DOMAIN rendered.food
  /\ ~routeDirty
  /\ ~foodDirty
  /\ loadReqs = EmptyBag
  /\ favReqs = EmptyBag
  /\ toggleFavorite

\* The favorite coordinator, the heart pressed only on a loaded and checked
\* food.
LoadedStep ==
  \/ \E m \in BagToSet(favReqs) : ServeFavorites(m)
  \/ \E m \in BagToSet(favReqs) : CheckFavoriteDone(m)
  \/ \E m \in BagToSet(favReqs) : CheckFavoriteFailed(m)
  \/ ToggleWhenLoaded
  \/ \E m \in BagToSet(toggleReqs) : ServeToggle(m)
  \/ \E m \in BagToSet(toggleReqs) : ToggleDone(m)
  \/ \E m \in BagToSet(toggleReqs) : ToggleFailed(m)

\* The order submission.
OrderStep ==
  \/ handleFinishOrder
  \/ \E p \in BagToSet(orderReqs) : OrderDone(p)
  \/ \E p \in BagToSet(orderReqs) : OrderFailed(p)

\* The end of the screen session.
TeardownStep == Unmount

Next ==
  \/ ScreenStep
  \/ NavigateStep
  \/ LedgerStep
  \/ CountedStep
  \/ AbsentStep
  \/ FavoriteStep
  \/ LoadedStep
  \/ OrderStep
  \/ TeardownStep

\* The whole screen.
Spec == Init /\ [][Next]_vars

\* The remote favorites collection is empty when the screen opens.
InitNoFavorites == Init /\ favorites = {}

\* The extras ledger and the food quantity, across reloads.  The favorites
\* requests the effects start stay unanswered.
NextLedger == ScreenStep \/ NavigateStep \/ LedgerStep
SpecLedger == InitNoFavorites /\ [][NextLedger]_vars

\* The order composer of one food: the quantities and the submission.
NextComposer == ScreenStep \/ LedgerStep \/ OrderStep
SpecComposer == InitNoFavorites /\ [][NextComposer]_vars

\* The order composer of food 1, whose ledger has one extra.
InitOneExtra == InitNoFavorites /\ routeParams = 1
SpecOrder == InitOneExtra /\ [][NextComposer]_vars

\* The favorite coordinator of one food: the user touches no quantity and
\* submits nothing.
NextFavorite == ScreenStep \/ FavoriteStep
SpecFavorite == Init /\ [][NextFavorite]_vars

\* The favorite coordinator with the screen leaving at any moment.
NextTeardown == ScreenStep \/ FavoriteStep \/ TeardownStep
SpecTeardown == Init /\ [][NextTeardown]_vars

\* The ledger of one load, every call for TrackedId counted.
NextCounted == ScreenStep \/ CountedStep
SpecCounted == InitNoFavorites /\ [][NextCounted]_vars

\* The counted ledger across reloads.
NextReload == ScreenStep \/ NavigateStep \/ CountedStep
SpecReload == InitNoFavorites /\ [][NextReload]_vars

\* The ledger of one load, the handlers called with any id.
NextAbsent == ScreenStep \/ LedgerStep \/ AbsentStep
SpecAbsent == InitNoFavorites /\ [][NextAbsent]_vars

\* The favorite toggles of a loaded food that no collection holds yet.
NextLoaded == ScreenStep \/ LoadedStep
SpecLoaded == InitNoFavorites /\ [][NextLoaded]_vars

\* ------------------------------------------------------------------ claims
\* C1: in every reachable state every extra's quantity is >= 0, whatever
\* sequence of handleIncrementExtra / handleDecrementExtra calls was made,
\* several calls before a re-render included.
C1_ExtrasNeverNegative ==
  \A i \in 1..Len(extras) : extras[i].quantity >= 0

\* C2: in every reachable state the displayed total is the number
\* foodQuantity x food.price + the sum of quantity x value over the extras,
\* computed from the current food, extras and foodQuantity.
C2_TotalIsFormula ==
  /\ cartTotal # formatValue(NaN)
  /\ "price" \in DOMAIN food =>
       cartTotal = formatValue(foodQuantity * food.price
                               + extraTotalFrom(extras, 1))

\* C3: in every reachable state foodQuantity >= 1.
C3_FoodQuantityAtLeastOne == foodQuantity >= 1

\* C4: when a food load completes (loadFood returns after setExtras),
\* foodQuantity is 1 and every extra's quantity is 0.
C4_LoadResets ==
  [][(loadCont # << >> /\ loadCont' = << >>) =>
       /\ foodQuantity' = 1
       /\ \A i \in 1..Len(extras') : extras'[i].quantity = 0]_vars

\* C5: the payload handleFinishOrder hands to the order creation holds the
\* food's fields, every extra of the ledger with its current quantity, and
\* the current foodQuantity.
C5_PayloadComplete ==
  [][\A p \in BagToSet(orderReqs') :
       orderReqs' = orderReqs (+) One(p) =>
         /\ \A k \in DOMAIN food \ {"extras"} : k \in DOMAIN p /\ p[k] = food[k]
         /\ p.extras = extras
         /\ "foodQuantity" \in DOMAIN p
         /\ p.foodQuantity = foodQuantity]_vars

\* Nothing the screen started is pending, and nothing has failed.
Settled ==
  /\ mounted /\ ~crashed
  /\ ~routeDirty /\ ~foodDirty
  /\ loadCont = << >>
  /\ loadReqs = EmptyBag
  /\ favReqs = EmptyBag
  /\ console = {}

\* C6: once the food load and every favorites fetch have completed
\* successfully and the user has not toggled, isFavorite is true exactly
\* when the loaded food's id is in the favorites collection.
C6_FavoriteIsMembership ==
  (Settled /\ nToggles = 0 /\ "id" \in DOMAIN food) =>
    (isFavorite <=> food.id \in favorites)

\* C7: no checkFavorite run (no favorites fetch) is started before the food
\* load has produced a food id.
C7_CheckAfterLoad ==
  \A m \in BagToSet(favReqs) : "id" \in DOMAIN m.food

\* C8: while the food has not been loaded, toggleFavorite issues no
\* add-favorite / remove-favorite write.
C8_NoWriteWithoutFood ==
  \A m \in BagToSet(toggleReqs) : "id" \in DOMAIN m.food

\* C9: toggles whose remote writes succeed flip isFavorite once each, in
\* every interleaving of the invocations and completions, so two of them
\* return it to the value it started from (the value checkFavorite last
\* set, or the constructed one).
C9_TwoTogglesRoundTrip ==
  isFavorite = (IF flips % 2 = 0 THEN favBase ELSE ~favBase)

\* Two toggles completed after checkFavorite set NotFavorite, one of them
\* an add-favorite write of the loaded food 2 (which no collection holds
\* when the screen opens), and the flag is NotFavorite again.
C9_Witness ==
  /\ flips = 2
  /\ console = {}
  /\ toggleReqs = EmptyBag
  /\ favReqs = EmptyBag
  /\ loadReqs = EmptyBag
  /\ "id" \in DOMAIN food
  /\ food.id = 2
  /\ food.id \in favorites
  /\ ~favBase
  /\ ~isFavorite

ToggleFailsNow(m) ==
  /\ ~m.served
  /\ toggleReqs' = toggleReqs (-) One(m)
  /\ "toggleFavorite" \in console'

LedgerOf(f, ex) ==
  IF "id" \notin DOMAIN f
  THEN ex = << >>
  ELSE /\ Len(ex) = Len(f.extras)
       /\ \A i \in 1..Len(ex) : ex[i].id = f.extras[i].id

\* C12: a failed food fetch leaves the cells as they were, and in no
\* reachable state does a committed render show a food record together with
\* an extras ledger that is not that food's.
C12_NoPartialFood ==
  LedgerOf(rendered.food, rendered.extras)

\* C13: a failed remote call (food fetch, favorites fetch, favorite write,
\* order creation) changes the state the screen layer consumes, so that the
\* failure is told apart from the call still pending.
C13_FailureObservable ==
  [][console' # console => << state, view >>' # << state, view >>]_vars

\* C14: no step of an order submission (the invocation of handleFinishOrder,
\* the completion of its post, the failure of its post) changes food,
\* extras, foodQuantity or isFavorite.
C14_SubmitKeepsDraft ==
  [][orderReqs' # orderReqs => state' = state]_vars

\* A submission of a draft with a chosen extra and two portions failed, and
\* the same draft has been submitted again.
C14_Witness ==
  /\ "handleFinishOrder" \in console
  /\ foodQuantity = 2
  /\ Len(extras) = 1
  /\ extras[1].quantity = 1
  /\ \E p \in BagToSet(orderReqs) : p.extras = extras /\ p.id = food.id

\* C15: once the screen is torn down, no completion of a call that was in
\* flight changes food, extras, foodQuantity or isFavorite.
C15_DiscardedAfterTeardown ==
  [][torndown => state' = state]_vars

\* max(0, n)
AtLeastZero(n) == IF n > 0 THEN n ELSE 0

C17_AppliedToLatest ==
  [][\A i \in 1..Len(extras) :
       extras[i].id = TrackedId =>
         /\ incs' # incs => extras'[i].quantity = extras[i].quantity + 1
         /\ decs' # decs =>
              extras'[i].quantity = AtLeastZero(extras[i].quantity - 1)]_vars

\* C18: a call of handleIncrementExtra(id) or handleDecrementExtra(id)
\* leaves the number, order, ids, names and values of the extras as they
\* are and changes the quantity of no extra whose id is not id, also when a
\* food load has replaced the ledger since the last render.
C18_OnlyThatExtra ==
  [][(incs' # incs \/ decs' # decs) =>
       /\ Len(extras') = Len(extras)
       /\ \A i \in 1..Len(extras) :
            /\ extras'[i].id = extras[i].id
            /\ extras'[i].name = extras[i].name
            /\ extras'[i].value = extras[i].value
            /\ extras[i].id # TrackedId =>
                 extras'[i].quantity = extras[i].quantity]_vars

\* C19: a call of handleIncrementExtra or handleDecrementExtra with an id
\* that the ledger does not hold raises no error and leaves food, extras,
\* foodQuantity and isFavorite as they are.
C19_AbsentIdIsNoOp ==
  [][\A id \in ExtraIds \ RenderedIds :
       (handleIncrementExtra(id) \/ handleDecrementExtra(id)) =>
         (crashed' = crashed /\ state' = state)]_vars

\* C20: once the food is loaded, every favorites fetch and every toggle's
\* remote write has completed successfully and no call is in flight,
\* isFavorite is true exactly when the food's id is in the remote favorites
\* collection, whatever the interleaving of the toggles' invocations and
\* completions was.
C20_FlagIsMembershipAfterToggles ==
  (Settled /\ toggleReqs = EmptyBag /\ "id" \in DOMAIN food) =>
    (isFavorite <=> food.id \in favorites)

====
